---- MODULE Spec2Model ----
(***************************************************************************)
(* Service doctor: the failure-tracking and alert-escalation engine of     *)
(* service-doctor/solid-version/main.py ("solid") and of                    *)
(* service-doctor/simple-version/main.py ("simple").                        *)
(*                                                                         *)
(* Time is counted in integer ticks.  datetime.now() is the variable        *)
(* clock; it never goes backwards.  A scheduled scan starts at least one    *)
(* tick after the previous one ended (schedule.every(n).minutes), and the   *)
(* store I/O between two clock reads inside record_failure takes at most    *)
(* one tick.                                                                *)
(***************************************************************************)
EXTENDS Integers, Sequences, FiniteSets, TLC

VARIABLES
    config,            \* self.config (solid) / CONFIG (simple)
    clock,             \* the value datetime.now() returns
    service_failures,  \* in-memory failure window of each service
    redis,             \* Redis: the sorted set service_failures:<service>
    mongo,             \* MongoDB: the failure documents of each service, in insertion order
    pc,                \* position of the process inside run()/scan_services()
    job,               \* the job that is running: initial scan, scheduled scan, cleanup
    idx,               \* index of the service the scan loop is at
    path,              \* locals of the current iteration of the scan loop
    obs,               \* calls the current iteration made on stores and channels
    occurred,          \* history: instants of the failed restarts of each service
    alerted            \* history: services an alert has been dispatched for

vars == <<config, clock, service_failures, redis, mongo, pc, job, idx, path, obs, occurred,
          alerted>>

----------------------------------------------------------------------------
(* Bounds of the model *)

MaxTime == 4          \* the clock stops here
MaxThreshold == 2     \* alert_threshold ranges over 1..MaxThreshold
MaxWindow == 2        \* alert_window_hours ranges over 0..MaxWindow

Latencies == {0, 1}            \* ticks between two clock reads inside record_failure
ScanIntervals == {1, 2}        \* ticks from the end of a scan to the start of the next
PriorFailures == {<<>>, <<0>>} \* failures of the first service left in the durable stores by an earlier run

----------------------------------------------------------------------------
(* Configuration *)

ServiceNames == {"svc1", "svc2"}
ServiceLists == {<<"svc1">>, <<"svc1", "svc2">>}   \* CONFIG["services"]

Range(f) == {f[i] : i \in DOMAIN f}

RetentionHours == MaxWindow + 1

\* config["databases"] of the solid version
DatabaseConfigs ==
    { << >>,
      << [type |-> "influxdb", enabled |-> TRUE],
         [type |-> "redis",    enabled |-> TRUE],
         [type |-> "mongodb",  enabled |-> FALSE] >>,
      << [type |-> "mongodb",  enabled |-> TRUE],
         [type |-> "redis",    enabled |-> TRUE] >> }

\* CONFIG["influxdb"] of the simple version
InfluxConfigs ==
    { << [type |-> "influxdb", enabled |-> b] >> : b \in BOOLEAN }

\* config["notifications"] / CONFIG["notification"]
NotificationConfigs ==
    { << [type |-> "email", enabled |-> TRUE,  configured |-> TRUE],
         [type |-> "slack", enabled |-> TRUE,  configured |-> FALSE],
         [type |-> "teams", enabled |-> FALSE, configured |-> TRUE] >>,
      << [type |-> "email", enabled |-> TRUE,  configured |-> TRUE],
         [type |-> "slack", enabled |-> FALSE, configured |-> TRUE],
         [type |-> "teams", enabled |-> TRUE,  configured |-> TRUE] >> }

AllConfigs ==
    [version : {"solid", "simple"}, services : ServiceLists,
     alert_threshold : 1..MaxThreshold, alert_window_hours : 0..MaxWindow,
     retention_hours : {RetentionHours},
     databases : DatabaseConfigs \cup InfluxConfigs,
     notifications : NotificationConfigs]

TwoStores ==
    << [type |-> "mongodb",  enabled |-> TRUE],
       [type |-> "redis",    enabled |-> TRUE] >>

TwoChannels ==
    << [type |-> "email", enabled |-> TRUE,  configured |-> TRUE],
       [type |-> "slack", enabled |-> FALSE, configured |-> TRUE],
       [type |-> "teams", enabled |-> TRUE,  configured |-> TRUE] >>

\* the configurations explored: with an event store that answers queries the
\* scan covers one service, without one it covers two; with two such stores
\* the threshold and the window are the largest ones; with two channels that
\* have their credentials the threshold and the window are one
Configs ==
    { c \in AllConfigs :
        /\ c.version = "solid" => c.databases \in DatabaseConfigs
        /\ c.version = "simple" => c.databases \in InfluxConfigs
        /\ (c.version = "solid" /\ c.databases # << >>) <=> Len(c.services) = 1
        /\ c.databases = TwoStores =>
             c.alert_threshold = MaxThreshold /\ c.alert_window_hours = MaxWindow
        /\ c.notifications = TwoChannels =>
             c.alert_threshold = 1 /\ c.alert_window_hours = 1 }

\* configurations with two services that share one event store (solid), and
\* the simple version with two services
RedisOnly == << [type |-> "redis", enabled |-> TRUE] >>

PairConfigs ==
    { c \in [version : {"solid", "simple"}, services : {<<"svc1", "svc2">>},
              alert_threshold : {MaxThreshold}, alert_window_hours : {1},
              retention_hours : {RetentionHours},
              databases : {RedisOnly} \cup InfluxConfigs,
              notifications : NotificationConfigs \ {TwoChannels}] :
        /\ c.version = "solid" => c.databases = RedisOnly
        /\ c.version = "simple" => c.databases \in InfluxConfigs }

\* mutant: a repository for every entry, enabled or not
databases_all ==
    [i \in 1..Len(config.databases) |-> config.databases[i].type]

\* self.databases: the repositories of the enabled entries, in configuration order
databases ==
    LET en == SelectSeq(config.databases, LAMBDA d : d.enabled)
    IN  [i \in 1..Len(en) |-> en[i].type]

\* self.notification_configs: the enabled entries, in configuration order
notification_configs == SelectSeq(config.notifications, LAMBDA n : n.enabled)

alert_threshold == config.alert_threshold
alert_window == config.alert_window_hours

----------------------------------------------------------------------------
(* datetime conversions used by the Redis repository *)

isoformat(t) == [iso |-> t]
fromisoformat(m) == m.iso
timestamp(t) == t

RECURSIVE SortByScore(_)
SortByScore(S) ==
    IF S = {} THEN << >>
    ELSE LET m == CHOOSE x \in S : \A y \in S : x.score <= y.score
         IN  <<m>> \o SortByScore(S \ {m})

RECURSIVE SeqOfSet(_)
SeqOfSet(S) ==
    IF S = {} THEN << >>
    ELSE LET m == CHOOSE x \in S : \A y \in S : x <= y
         IN  <<m>> \o SeqOfSet(S \ {m})

----------------------------------------------------------------------------
(* The repositories.  Only Failure events are ever read back (get_failures), *)
(* so a store's content is the failure timestamps it holds per service.      *)

StoreOutcomes == {"ok", "false", "raise"}
    \* ok:    the backend call succeeded
    \* false: the backend call failed inside the repository, which caught the
    \*        error and returned False / [] / None
    \* raise: an exception left the repository method

\* a find() without sort() returns the documents in an order MongoDB does not
\* guarantee: in the order of insertion (ok) or in another one (unsorted)
CursorOutcomes == StoreOutcomes \cup {"unsorted"}

\* what a call of the given operation can do on a repository of the given type:
\* get_failures and cleanup_old_records of InfluxDBRepository are stubs
Outcomes(type, op) ==
    IF type = "influxdb" /\ op # "save" THEN {"ok"}
    ELSE IF type = "mongodb" /\ op = "query" THEN CursorOutcomes
    ELSE StoreOutcomes

OutcomeSeqs(op) ==
    {f \in [1..Len(databases) -> CursorOutcomes] :
        \A i \in 1..Len(databases) : f[i] \in Outcomes(databases[i], op)}

\* mutant: one sorted set for the failures of all services
failure_key_shared(service_name) == "svc1"

\* failure_key = f"service_failures:{service_name}"
failure_key(service_name) == service_name

\* RedisRepository.save_event for a Failure event
RedisSaveFailure(content, s, t) ==
    [content EXCEPT ![failure_key(s)] = @ \cup {[member |-> isoformat(t), score |-> timestamp(t)]}]

\* MongoDBRepository.save_event for a Failure event
MongoSaveFailure(content, s, t) ==
    [content EXCEPT ![s] = Append(@, t)]

\* RedisRepository.get_failures: zrangebyscore(key, since, "+inf")
RedisGetFailures(content, s, since) ==
    LET hits == {e \in content[failure_key(s)] : e.score >= timestamp(since)}
        sorted == SortByScore(hits)
    IN  [i \in 1..Len(sorted) |-> fromisoformat(sorted[i].member)]

\* MongoDBRepository.get_failures: find({timestamp: {$gte: since}}), the
\* documents in the order of insertion
MongoGetFailures(content, s, since) ==
    SelectSeq(content[s], LAMBDA t : t >= since)

Reverse(seq) == [i \in 1..Len(seq) |-> seq[Len(seq) + 1 - i]]

\* InfluxDBRepository.get_failures: a stub
InfluxGetFailures(s, since) == << >>

\* RedisRepository.cleanup_old_records: zremrangebyscore(key, "-inf", cutoff)
RedisCleanup(content, cutoff) ==
    [s \in ServiceNames |-> {e \in content[s] : ~(e.score <= timestamp(cutoff))}]

\* MongoDBRepository.cleanup_old_records: delete_many({timestamp: {$lt: cutoff}})
MongoCleanup(content, cutoff) ==
    [s \in ServiceNames |-> SelectSeq(content[s], LAMBDA t : ~(t < cutoff))]

\* db.get_failures(service_name, since) on the repository of the given type
DbGetFailures(type, s, since, outcome) ==
    IF outcome = "unsorted" THEN Reverse(MongoGetFailures(mongo, s, since))
    ELSE IF outcome # "ok" THEN << >>
    ELSE CASE type = "influxdb" -> InfluxGetFailures(s, since)
           [] type = "redis"    -> RedisGetFailures(redis, s, since)
           [] type = "mongodb"  -> MongoGetFailures(mongo, s, since)

----------------------------------------------------------------------------
(* ServiceDoctor.save_event: fan-out of one event to self.databases *)

\* mutant: save_event has no except clause
save_event_propagates == FALSE

\* the except clause of save_event catches what db.save_event raises
save_event_catches == TRUE

RECURSIVE save_event_loop(_, _, _)
save_event_loop(i, outcomes, calls) ==
    IF i > Len(databases) THEN [calls |-> calls, escaped |-> FALSE]
    ELSE LET c == [calls EXCEPT ![i] = @ + 1]
         IN  IF outcomes[i] = "raise" /\ ~save_event_catches
             THEN [calls |-> c, escaped |-> TRUE]
             ELSE save_event_loop(i + 1, outcomes, c)

save_event(outcomes) ==
    save_event_loop(1, outcomes, [i \in 1..Len(databases) |-> 0])

\* whether the repository of the given type stored the event
Stored(type, r, outcomes) ==
    \E i \in 1..Len(databases) :
        databases[i] = type /\ r.calls[i] > 0 /\ outcomes[i] = "ok"

----------------------------------------------------------------------------
(* ServiceDoctor.get_recent_failures *)

\* mutant: get_recent_failures has no except clause
get_failures_propagates == FALSE

\* the except clause of get_recent_failures catches what db.get_failures raises
get_failures_catches == TRUE

solid_cutoff_time(now) == now - alert_window

\* mutant: the fallback keeps every entry
solid_keep_all(t, cutoff_time) == TRUE

\* the filter of the in-memory fallback
solid_keep(t, cutoff_time) == t >= cutoff_time

\* mutant: `if failures is not None: return failures`
solid_accepts_any(failures) == TRUE

\* `if failures: return failures`
solid_accepts(failures) == failures # << >>

RECURSIVE get_failures_loop(_, _, _, _, _)
get_failures_loop(i, s, cutoff_time, outcomes, calls) ==
    IF i > Len(databases)
    THEN [source |-> 0, failures |-> << >>, calls |-> calls, escaped |-> FALSE]
    ELSE LET c == [calls EXCEPT ![i] = @ + 1]
             f == DbGetFailures(databases[i], s, cutoff_time, outcomes[i])
         IN  IF outcomes[i] = "raise"
             THEN IF get_failures_catches
                  THEN get_failures_loop(i + 1, s, cutoff_time, outcomes, c)
                  ELSE [source |-> -1, failures |-> << >>, calls |-> c, escaped |-> TRUE]
             ELSE IF solid_accepts(f)
                  THEN [source |-> i, failures |-> f, calls |-> c, escaped |-> FALSE]
                  ELSE get_failures_loop(i + 1, s, cutoff_time, outcomes, c)

\* the result of get_recent_failures(s) at instant now: the list returned, where
\* it came from (0: the in-memory window) and the in-memory window afterwards
get_recent_failures(s, now, outcomes) ==
    LET cutoff_time == solid_cutoff_time(now)
        r == get_failures_loop(1, s, cutoff_time, outcomes,
                               [i \in 1..Len(databases) |-> 0])
        pruned == SelectSeq(service_failures[s], LAMBDA t : solid_keep(t, cutoff_time))
    IN  IF r.source = 0
        THEN [r EXCEPT !.failures = pruned] @@ [memory |-> pruned]
        ELSE r @@ [memory |-> service_failures[s]]

\* mutant: the comparison is strict
solid_should_alert_strict(recent_failures) == Len(recent_failures) > alert_threshold

\* mutant: the alert is sent when the count is exactly the threshold
should_alert_exact(n, threshold) == n = threshold

\* the comparison of the alert decision, the same in both versions
should_alert(n, threshold) == n >= threshold

\* `if len(recent_failures) >= alert_threshold`
solid_should_alert(recent_failures) == should_alert(Len(recent_failures), alert_threshold)

----------------------------------------------------------------------------
(* State of one iteration of the scan loop *)

NoPath ==
    [probe |-> "none",            \* what the last systemctl call did
     running |-> "none",          \* what is_service_running / check_service returned
     restart_success |-> "none",  \* what restart_service returned
     now |-> -1,                  \* `now` of record_failure
     evaluated |-> FALSE,         \* the alert decision was taken
     eval_time |-> -1,            \* the clock read the cutoff was computed from
     recent_failures |-> << >>,   \* the list the decision was taken on
     source |-> -1]               \* 0: in-memory window, i: databases[i]

NoCall == [op |-> "none", calls |-> << >>, outcomes |-> << >>, escaped |-> FALSE]

NoObs ==
    [events |-> << >>,            \* events handed to the event stores, in order
     last |-> NoCall,             \* the last fan-out over the stores
     alerts |-> 0,                \* calls of send_alerts / send_alert
     alert_failures |-> << >>,    \* the failure list the channels were given
     attempts |-> << >>]          \* notification attempts, in order

service == config.services[idx]

Event(type, success) == [event_type |-> type, success |-> success]

Call(op, r, outcomes) ==
    [op |-> op, calls |-> r.calls, outcomes |-> outcomes, escaped |-> r.escaped]

\* an exception that leaves scan_services ends run(): it is logged and run()
\* returns 1 inside the loop, and it is uncaught during the initial scan
Escape == IF job = "initial" THEN "uncaught" ELSE "exit1"

----------------------------------------------------------------------------
(* Notification senders *)

ChannelResults == {"sent", "failed", "raised"}
    \* sent:   the transport call succeeded
    \* failed: the transport call failed; the sender caught it and returned False
    \* raised: an exception left create_sender / send_notification

\* what a sender of the solid version returns, and the log record written on
\* the way (a record below logging.INFO is not emitted)
SolidReturns ==
    [guard  |-> [returned |-> "False", log |-> [level |-> "debug", msg |-> "missing"]],
     sent   |-> [returned |-> "True",  log |-> [level |-> "info",  msg |-> "sent"]],
     failed |-> [returned |-> "False", log |-> [level |-> "error", msg |-> "failed to send"]],
     raised |-> [returned |-> "raised", log |-> [level |-> "error", msg |-> "failed to send"]]]

\* logging.basicConfig(level=logging.INFO): what the log shows of a record
Severity == [debug |-> 10, info |-> 20, warning |-> 30, error |-> 40]
Emitted(log) ==
    IF Severity[log.level] >= Severity.info THEN log ELSE [level |-> "none", msg |-> ""]

Attempt(type, result, io, r) ==
    [type |-> type, result |-> result, io |-> io, returned |-> r.returned, log |-> r.log]

\* mutant: the sender has no guard on its configuration
send_notification_unguarded(n, result) ==
    Attempt(n.type, result, TRUE, SolidReturns[result])

\* <Kind>NotificationSender.send_notification: the guard on the missing
\* password / webhook_url returns False before any I/O
send_notification(n, result) ==
    IF ~n.configured THEN Attempt(n.type, "guard", FALSE, SolidReturns.guard)
    ELSE Attempt(n.type, result, TRUE, SolidReturns[result])

\* mutant: send_alerts has no except clause
send_alerts_propagates == FALSE

\* the except clause of send_alerts catches what a sender raises
send_alerts_catches == TRUE

RECURSIVE send_alerts_loop(_, _, _)
send_alerts_loop(i, results, attempts) ==
    IF i > Len(notification_configs) THEN attempts
    ELSE LET a == send_notification(notification_configs[i], results[i])
         IN  IF a.result = "raised" /\ ~send_alerts_catches
             THEN Append(attempts, a)
             ELSE send_alerts_loop(i + 1, results, Append(attempts, a))

send_alerts(results) == send_alerts_loop(1, results, << >>)

----------------------------------------------------------------------------
(* The probe: systemctl through subprocess.run *)

CheckOutcomes == {"active", "inactive", "error"}
    \* active / inactive: what `systemctl is-active` printed
    \* error: subprocess.run raised (systemctl not found, or any other error)

RestartOutcomes == {"zero", "nonzero", "error"}
    \* zero / nonzero: the return code of `systemctl restart`

\* mutant: an error of the check is taken for a running service
is_service_running_unless_inactive(outcome) == outcome # "inactive"

\* is_service_running / check_service: stdout is "active"; every exception is
\* caught and gives False
is_service_running(outcome) == outcome = "active"

\* restart_service: the return code is 0; every exception is caught and gives
\* False
restart_service(outcome) == outcome = "zero"

----------------------------------------------------------------------------
(* solid version: ServiceDoctor.scan_services, one iteration in steps *)

\* mutant: a service found down is marked failed at once
solid_when_down_record == "record_failure"

\* the else branch of scan_services: a service found down is restarted
solid_when_down == "restart"

\* is_service_running, and the successful Check event when it returns True
solid_check ==
    /\ config.version = "solid" /\ pc = "check"
    /\ \E outcome \in CheckOutcomes :
         IF is_service_running(outcome)
         THEN \E outcomes \in OutcomeSeqs("save") :
                LET r == save_event(outcomes)
                IN  /\ path' = [path EXCEPT !.running = "yes", !.probe = outcome]
                    /\ obs' = [obs EXCEPT !.events = Append(@, Event("check", TRUE)),
                                          !.last = Call("save", r, outcomes)]
                    /\ pc' = IF r.escaped THEN Escape ELSE "done"
         ELSE /\ path' = [path EXCEPT !.running = "no", !.probe = outcome]
              /\ pc' = solid_when_down
              /\ obs' = obs
    /\ UNCHANGED <<alerted, config, clock, service_failures, redis, mongo, job, idx, occurred>>

\* restart_service and the Restart event
solid_restart ==
    /\ config.version = "solid" /\ pc = "restart"
    /\ \E outcome \in RestartOutcomes, outcomes \in OutcomeSeqs("save") :
         LET restart_success == restart_service(outcome)
             r == save_event(outcomes)
         IN  /\ path' = [path EXCEPT !.probe = outcome,
                                     !.restart_success =
                                        IF restart_success THEN "yes" ELSE "no"]
             /\ obs' = [obs EXCEPT !.events = Append(@, Event("restart", restart_success)),
                                   !.last = Call("save", r, outcomes)]
             /\ pc' = IF r.escaped THEN Escape
                      ELSE IF restart_success THEN "done" ELSE "record_failure"
    /\ UNCHANGED <<alerted, config, clock, service_failures, redis, mongo, job, idx, occurred>>

\* record_failure up to the in-memory append: the Failure event is saved with
\* timestamp now, then now is appended to the in-memory window
solid_record_failure ==
    /\ config.version = "solid" /\ pc = "record_failure"
    /\ \E outcomes \in OutcomeSeqs("save") :
         LET now == clock
             r == save_event(outcomes)
         IN  /\ path' = [path EXCEPT !.now = now]
             /\ obs' = [obs EXCEPT !.events = Append(@, Event("failure", FALSE)),
                                   !.last = Call("save", r, outcomes)]
             /\ redis' = IF Stored("redis", r, outcomes)
                         THEN RedisSaveFailure(redis, service, now) ELSE redis
             /\ mongo' = IF Stored("mongodb", r, outcomes)
                         THEN MongoSaveFailure(mongo, service, now) ELSE mongo
             /\ occurred' = [occurred EXCEPT ![service] = @ \cup {now}]
             /\ IF r.escaped
                THEN pc' = Escape /\ UNCHANGED service_failures
                ELSE /\ pc' = "get_recent_failures"
                     /\ service_failures' =
                          [service_failures EXCEPT ![service] = Append(@, now)]
    /\ UNCHANGED <<alerted, config, clock, job, idx>>

\* the rest of record_failure: get_recent_failures and the alert decision
solid_get_recent_failures ==
    /\ config.version = "solid" /\ pc = "get_recent_failures"
    /\ \E d \in Latencies, outcomes \in OutcomeSeqs("query") :
         /\ clock + d <= MaxTime
         /\ LET now == clock + d
                g == get_recent_failures(service, now, outcomes)
            IN  /\ clock' = now
                /\ service_failures' = [service_failures EXCEPT ![service] = g.memory]
                /\ obs' = [obs EXCEPT !.last = Call("query", g, outcomes)]
                /\ IF g.escaped
                   THEN pc' = Escape /\ path' = path
                   ELSE /\ path' = [path EXCEPT !.evaluated = TRUE,
                                                !.eval_time = now,
                                                !.recent_failures = g.failures,
                                                !.source = g.source]
                        /\ pc' = IF solid_should_alert(g.failures)
                                 THEN "send_alerts" ELSE "done"
    /\ UNCHANGED <<alerted, config, redis, mongo, job, idx, occurred>>

\* send_alerts(service_name, recent_failures)
solid_send_alerts ==
    /\ config.version = "solid" /\ pc = "send_alerts"
    /\ \E results \in [1..Len(notification_configs) -> ChannelResults] :
         LET attempts == send_alerts(results)
         IN  /\ obs' = [obs EXCEPT !.alerts = @ + 1,
                                   !.alert_failures = path.recent_failures,
                                   !.attempts = @ \o attempts]
             /\ pc' = IF Len(attempts) > 0 /\ attempts[Len(attempts)].result = "raised"
                         /\ ~send_alerts_catches
                      THEN Escape ELSE "done"
    /\ alerted' = alerted \cup {service}
    /\ UNCHANGED <<config, clock, service_failures, redis, mongo, job, idx, path, occurred>>

----------------------------------------------------------------------------
(* simple version: scan_services, record_failure, send_alert in steps *)

\* save_to_influxdb(service, event_type, success), called when
\* CONFIG["influxdb"]["enabled"]: it catches every error of the write
save_to_influxdb(type, success, outcome) ==
    [obs EXCEPT !.events = Append(@, Event(type, success)),
                !.last = [op |-> "save", calls |-> <<1>>, outcomes |-> <<outcome>>,
                          escaped |-> FALSE]]

influxdb_enabled == config.databases[1].enabled

SimpleOutcomes == {"ok", "false"}

\* check_service, and the check event when it returns True
simple_check ==
    /\ config.version = "simple" /\ pc = "check"
    /\ \E result \in CheckOutcomes :
         IF is_service_running(result)
         THEN /\ path' = [path EXCEPT !.running = "yes", !.probe = result]
              /\ pc' = "done"
              /\ IF influxdb_enabled
                 THEN \E outcome \in SimpleOutcomes :
                        obs' = save_to_influxdb("check", TRUE, outcome)
                 ELSE obs' = obs
         ELSE /\ path' = [path EXCEPT !.running = "no", !.probe = result]
              /\ pc' = "restart"
              /\ obs' = obs
    /\ UNCHANGED <<alerted, config, clock, service_failures, redis, mongo, job, idx, occurred>>

\* mutant: a successful restart resets the failure window of the service
simple_restart_resets ==
    /\ config.version = "simple" /\ pc = "restart"
    /\ \E result \in RestartOutcomes :
         IF restart_service(result)
         THEN /\ path' = [path EXCEPT !.restart_success = "yes", !.probe = result]
              /\ pc' = "done"
              /\ service_failures' = [service_failures EXCEPT ![service] = << >>]
              /\ IF influxdb_enabled
                 THEN \E outcome \in SimpleOutcomes :
                        obs' = save_to_influxdb("restart", TRUE, outcome)
                 ELSE obs' = obs
         ELSE /\ path' = [path EXCEPT !.restart_success = "no", !.probe = result]
              /\ pc' = "record_failure"
              /\ obs' = obs
              /\ service_failures' = service_failures
    /\ UNCHANGED <<alerted, config, clock, redis, mongo, job, idx, occurred>>

\* restart_service, and the restart event when it succeeds
simple_restart ==
    /\ config.version = "simple" /\ pc = "restart"
    /\ \E result \in RestartOutcomes :
         IF restart_service(result)
         THEN /\ path' = [path EXCEPT !.restart_success = "yes", !.probe = result]
              /\ pc' = "done"
              /\ IF influxdb_enabled
                 THEN \E outcome \in SimpleOutcomes :
                        obs' = save_to_influxdb("restart", TRUE, outcome)
                 ELSE obs' = obs
         ELSE /\ path' = [path EXCEPT !.restart_success = "no", !.probe = result]
              /\ pc' = "record_failure"
              /\ obs' = obs
    /\ UNCHANGED <<alerted, config, clock, service_failures, redis, mongo, job, idx, occurred>>

simple_cutoff_time(now) == now - alert_window

\* mutant: record_failure keeps every entry
simple_keep_all(t, cutoff_time) == TRUE

\* the filter of record_failure
simple_keep(t, cutoff_time) == t >= cutoff_time

\* mutant: the comparison is strict
simple_should_alert_strict(failures) == Len(failures) > alert_threshold

\* `if len(service_failures[service_name]) >= CONFIG["alert_threshold"]`
simple_should_alert(failures) == should_alert(Len(failures), alert_threshold)

\* record_failure up to the alert decision: append now, prune, compare
simple_record_failure ==
    /\ config.version = "simple" /\ pc = "record_failure"
    /\ LET now == clock
           cutoff_time == simple_cutoff_time(now)
           window == SelectSeq(Append(service_failures[service], now),
                               LAMBDA t : simple_keep(t, cutoff_time))
       IN  /\ service_failures' = [service_failures EXCEPT ![service] = window]
           /\ occurred' = [occurred EXCEPT ![service] = @ \cup {now}]
           /\ path' = [path EXCEPT !.now = now, !.evaluated = TRUE, !.eval_time = now,
                                   !.recent_failures = window, !.source = 0]
           /\ pc' = IF simple_should_alert(window) THEN "send_alert" ELSE "save_failure"
    /\ UNCHANGED <<alerted, config, clock, redis, mongo, job, idx, obs>>

SimpleResults == {"sent", "failed"}

\* the senders of the simple version return no value; what they do shows in
\* the log only
SimpleReturns ==
    [guard  |-> [returned |-> "None", log |-> [level |-> "debug", msg |-> "missing"]],
     sent   |-> [returned |-> "None", log |-> [level |-> "info",  msg |-> "sent"]],
     failed |-> [returned |-> "None", log |-> [level |-> "error", msg |-> "failed to send"]]]

\* send_<kind>_alert(service_name): returns at once when the channel is not
\* enabled or its password / webhook_url is missing
send_kind_alert(n, result) ==
    IF ~n.enabled \/ ~n.configured
    THEN Attempt(n.type, "guard", FALSE, SimpleReturns.guard)
    ELSE Attempt(n.type, result, TRUE, SimpleReturns[result])

\* send_alert calls the sender of every channel whose "enabled" is set
RECURSIVE send_alert_from(_, _, _)
send_alert_from(i, results, attempts) ==
    IF i > Len(config.notifications) THEN attempts
    ELSE IF config.notifications[i].enabled
         THEN send_alert_from(i + 1, results,
                  Append(attempts, send_kind_alert(config.notifications[i], results[i])))
         ELSE send_alert_from(i + 1, results, attempts)

send_alert(results) == send_alert_from(1, results, << >>)

\* send_alert(service_name): the senders read service_failures[service_name]
simple_send_alert ==
    /\ config.version = "simple" /\ pc = "send_alert"
    /\ \E results \in [1..Len(config.notifications) -> SimpleResults] :
         obs' = [obs EXCEPT !.alerts = @ + 1,
                            !.alert_failures = service_failures[service],
                            !.attempts = @ \o send_alert(results)]
    /\ pc' = "save_failure"
    /\ alerted' = alerted \cup {service}
    /\ UNCHANGED <<config, clock, service_failures, redis, mongo, job, idx, path, occurred>>

\* the end of record_failure: the failure event goes to InfluxDB
simple_save_failure ==
    /\ config.version = "simple" /\ pc = "save_failure"
    /\ IF influxdb_enabled
       THEN \E outcome \in SimpleOutcomes :
              obs' = save_to_influxdb("failure", FALSE, outcome)
       ELSE obs' = obs
    /\ pc' = "done"
    /\ UNCHANGED <<alerted, config, clock, service_failures, redis, mongo, job, idx, path, occurred>>

----------------------------------------------------------------------------
(* The scan loop and the scheduler loop of run() / main() *)

\* mutant: the for loop ends after a service whose restart failed
scan_next_stops ==
    /\ pc = "done"
    /\ path' = NoPath /\ obs' = NoObs
    /\ IF idx < Len(config.services) /\ path.restart_success # "no"
       THEN idx' = idx + 1 /\ pc' = "check" /\ job' = job
       ELSE idx' = 1 /\ pc' = "idle" /\ job' = "none"
    /\ UNCHANGED <<alerted, config, clock, service_failures, redis, mongo, occurred>>

\* the for loop of scan_services moves to the next service, or the scan ends
scan_next ==
    /\ pc = "done"
    /\ path' = NoPath /\ obs' = NoObs
    /\ IF idx < Len(config.services)
       THEN idx' = idx + 1 /\ pc' = "check" /\ job' = job
       ELSE idx' = 1 /\ pc' = "idle" /\ job' = "none"
    /\ UNCHANGED <<alerted, config, clock, service_failures, redis, mongo, occurred>>

\* mutant: the scheduler starts a due job on a thread of its own, whatever
\* the loop is doing
run_pending_threaded == pc \notin {"cleaned", "exit0", "exit1", "uncaught"}

\* mutant: the scan job is cancelled once a failure has been recorded
run_pending_gives_up ==
    pc = "idle" /\ \A s \in ServiceNames : service_failures[s] = << >>

\* schedule.run_pending() is called from the while loop of run() only, and it
\* calls the due jobs one after the other: a job starts when none is running
run_pending_ready == pc = "idle"

\* schedule.run_pending() finds the scan job due
run_pending_scan ==
    /\ run_pending_ready
    /\ \E d \in ScanIntervals :
         /\ clock + d <= MaxTime
         /\ clock' = clock + d
    /\ pc' = "check" /\ job' = "scan" /\ idx' = 1
    /\ UNCHANGED <<alerted, config, service_failures, redis, mongo, path, obs, occurred>>

\* cleanup_old_data without its try: what cleanup_old_records raises leaves it
cleanup_propagates == FALSE

\* the except clause of cleanup_old_data catches what cleanup_old_records raises
cleanup_catches == TRUE

RECURSIVE cleanup_loop(_, _, _)
cleanup_loop(i, outcomes, calls) ==
    IF i > Len(databases) THEN [calls |-> calls, escaped |-> FALSE]
    ELSE LET c == [calls EXCEPT ![i] = @ + 1]
         IN  IF outcomes[i] = "raise" /\ ~cleanup_catches
             THEN [calls |-> c, escaped |-> TRUE]
             ELSE cleanup_loop(i + 1, outcomes, c)

\* schedule.run_pending() finds the cleanup job due: cleanup_old_data
cleanup_old_data ==
    /\ config.version = "solid" /\ run_pending_ready
    /\ \E outcomes \in OutcomeSeqs("cleanup") :
         LET cutoff_time == clock - config.retention_hours
             r == cleanup_loop(1, outcomes, [i \in 1..Len(databases) |-> 0])
         IN  /\ redis' = IF Stored("redis", r, outcomes)
                         THEN RedisCleanup(redis, cutoff_time) ELSE redis
             /\ mongo' = IF Stored("mongodb", r, outcomes)
                         THEN MongoCleanup(mongo, cutoff_time) ELSE mongo
             /\ obs' = [obs EXCEPT !.last = Call("cleanup", r, outcomes)]
             /\ pc' = IF r.escaped THEN "exit1" ELSE "cleaned"
    /\ job' = "cleanup"
    /\ UNCHANGED <<alerted, config, clock, service_failures, idx, path, occurred>>

\* cleanup_old_data returns to the scheduler loop
cleanup_return ==
    /\ pc = "cleaned"
    /\ pc' = "idle" /\ job' = "none" /\ obs' = NoObs
    /\ UNCHANGED <<alerted, config, clock, service_failures, redis, mongo, idx, path, occurred>>

----------------------------------------------------------------------------

Durable(type, c) ==
    \E i \in 1..Len(c.databases) : c.databases[i].enabled /\ c.databases[i].type = type

InitOf(configs) ==
    /\ config \in configs
    /\ clock = 1
    /\ service_failures = [s \in ServiceNames |-> << >>]
    /\ \E prior \in PriorFailures :
         /\ (prior # << >>) => (Durable("redis", config) \/ Durable("mongodb", config))
         /\ redis = [s \in ServiceNames |->
                       IF s = config.services[1] /\ Durable("redis", config)
                       THEN {[member |-> isoformat(t), score |-> timestamp(t)] : t \in Range(prior)}
                       ELSE {}]
         /\ mongo = [s \in ServiceNames |->
                       IF s = config.services[1] /\ Durable("mongodb", config) THEN prior ELSE << >>]
         /\ occurred = [s \in ServiceNames |->
                       IF s = config.services[1] THEN Range(prior) ELSE {}]
    /\ pc = "check" /\ job = "initial" /\ idx = 1
    /\ path = NoPath /\ obs = NoObs
    /\ alerted = {}

Init == InitOf(Configs)

Next ==
    \/ solid_check
    \/ solid_restart
    \/ solid_record_failure
    \/ solid_get_recent_failures
    \/ solid_send_alerts
    \/ simple_check
    \/ simple_restart
    \/ simple_record_failure
    \/ simple_send_alert
    \/ simple_save_failure
    \/ scan_next
    \/ run_pending_scan
    \/ cleanup_old_data
    \/ cleanup_return

Spec == Init /\ [][Next]_vars

----------------------------------------------------------------------------
(* The external interrupt (SIGINT): Python raises KeyboardInterrupt in the  *)
(* main thread at whatever point it has reached.  KeyboardInterrupt is not  *)
(* an Exception, so no `except Exception` clause of the scan stops it.      *)

\* where run() is when the interrupt arrives: the while loop is inside the
\* try block, the initial scan is before it
InsideTry == job # "initial"

\* KeyboardInterrupt: inside the try block run() logs it and returns 0; during
\* the initial scan nothing catches it and the interpreter ends with a traceback
interrupt ==
    /\ pc \notin {"exit0", "exit1", "uncaught", "interrupted"}
    /\ pc' = IF InsideTry THEN "exit0" ELSE "interrupted"
    /\ UNCHANGED <<alerted, config, clock, service_failures, redis, mongo, job, idx, path, obs,
                   occurred>>

\* the exit status of the process: exit(main()), or the interpreter's own
\* status when an exception leaves main()
ExitStatus(p) ==
    CASE p = "exit0"       -> 0
      [] p = "exit1"       -> 1
      [] p = "uncaught"    -> 1
      [] p = "interrupted" -> 130

\* the runs with an alert window of one tick
InitLive == Init /\ config.alert_window_hours = 1

\* the thread of run() keeps executing, and every external call returns
SpecLive == InitLive /\ [][Next]_vars /\ WF_vars(Next)

NextInt == Next \/ interrupt

----------------------------------------------------------------------------
(* An external call that never responds.  subprocess.run (systemctl),       *)
(* smtplib.SMTP and requests.post are called without a timeout argument, so *)
(* the call blocks the only thread of the process for as long as the other  *)
(* side stays silent.                                                       *)

never_responds ==
    /\ pc \in {"check", "restart", "send_alerts", "send_alert"}
    /\ pc' = "blocked"
    /\ UNCHANGED <<alerted, config, clock, service_failures, redis, mongo, job, idx, path, obs,
                   occurred>>

NextHang == Next \/ never_responds

SpecHang == Init /\ [][NextHang]_vars

SpecInt == Init /\ [][NextInt]_vars

\* the runs with two services; the shared store holds a failure of the first
\* service from an earlier run
InitPair ==
    /\ InitOf(PairConfigs)
    /\ config.version = "solid" => occurred[config.services[1]] # {}

SpecPair == InitPair /\ [][Next]_vars

----------------------------------------------------------------------------
(* Properties *)

\* the alert decision of the current iteration has been taken
Evaluated == path.evaluated

\* notification dispatch has been started in the current iteration
Dispatching == pc \in {"send_alerts", "send_alert"} \/ obs.alerts > 0

\* run() has ended
Ended == pc \in {"exit0", "exit1", "uncaught", "interrupted"}

\* failed restarts of service s inside the alert window that ends at instant t
InWindow(s, t) == {x \in occurred[s] : x <= t /\ t - x <= alert_window}

FailureEvents(o) ==
    Cardinality({i \in 1..Len(o.events) : o.events[i].event_type = "failure"})

\* C1: the failure list the alert decision is taken on holds no timestamp ts
\* with now - ts > alert window, now being the instant of the evaluation.
C1_WindowCorrect ==
    Evaluated =>
        \A i \in 1..Len(path.recent_failures) :
            path.eval_time - path.recent_failures[i] <= alert_window

\* C1 witness: a decision taken on a non-empty list while an earlier failure of
\* the service lies outside the window
C1_Witness ==
    /\ Evaluated /\ path.recent_failures # << >>
    /\ \E x \in occurred[service] : path.eval_time - x > alert_window

\* C2: right after a recorded failure, dispatch is started exactly when the
\* evaluated list has at least alert_threshold entries, and at most once.
C2_DispatchIffThreshold ==
    /\ (Evaluated /\ ~Ended) =>
          (Dispatching <=> Len(path.recent_failures) >= alert_threshold)
    /\ ~Evaluated => ~Dispatching
    /\ obs.alerts <= 1

\* C2 witness: dispatch started on a list of exactly alert_threshold entries
C2_Witness ==
    /\ Evaluated /\ Dispatching
    /\ Len(path.recent_failures) = alert_threshold

\* the event sequence the claim gives for the outcome of check and restart
ExpectedEvents ==
    IF path.running = "yes" THEN << Event("check", TRUE) >>
    ELSE IF path.restart_success = "yes" THEN << Event("restart", TRUE) >>
    ELSE << Event("restart", FALSE), Event("failure", FALSE) >>

\* C3: for each service in each scan the events handed to the event store are
\* [Check ok] when running, [Restart ok] when restarted, [Restart failed,
\* Failure] when the restart failed, and nothing else.
C3_EventSequences ==
    (pc = "done" /\ Len(databases) > 0) => obs.events = ExpectedEvents

\* C3 restricted to the solid version
C3_SolidEventSequences ==
    (pc = "done" /\ config.version = "solid") => obs.events = ExpectedEvents

\* C4: a Failure (window append, Failure event) happens only after, in the same
\* iteration of the scan, the check returned false and the restart returned false.
C4_FailureOnlyAfterFailedRestart ==
    [][ ( \/ \E s \in ServiceNames :
                Len(service_failures'[s]) > Len(service_failures[s])
          \/ occurred' # occurred
          \/ FailureEvents(obs') > FailureEvents(obs) )
        => (path.running = "no" /\ path.restart_success = "no") ]_vars

\* C4 witness: a failure has been recorded after a failed check and a failed restart
C4_Witness ==
    /\ path.now # -1 /\ FailureEvents(obs) = 1
    /\ path.running = "no" /\ path.restart_success = "no"

\* every enabled channel was attempted exactly once, in configuration order
EachEnabledChannelOnce ==
    LET en == notification_configs
    IN  /\ Len(obs.attempts) = Len(en)
        /\ \A i \in 1..Len(en) : obs.attempts[i].type = en[i].type

\* C5: with alert_threshold = T and T failed restarts of a service inside one
\* alert window, the failures before the T-th dispatch nothing and the T-th
\* triggers one attempt on each enabled channel with a list of T timestamps.
\* (The durable stores held no failure of the service when the process started.)
C5_ThresholdCrossing ==
    (Evaluated /\ ~Ended /\ 0 \notin occurred[service]) =>
        LET k == Cardinality(InWindow(service, path.eval_time))
        IN  /\ k < alert_threshold => ~Dispatching
            /\ k = alert_threshold =>
                  /\ Dispatching
                  /\ Len(path.recent_failures) = alert_threshold
                  /\ pc = "done" =>
                        /\ obs.alerts = 1
                        /\ EachEnabledChannelOnce
                        /\ obs.alert_failures = path.recent_failures

\* every failure this process recorded for s is held by every active store
\* that answers queries
NoLostWrite(s) ==
    \A x \in {y \in occurred[s] : y >= 1 /\ path.eval_time - y <= alert_window} :
        /\ Durable("redis", config) /\ config.version = "solid" =>
              \E e \in redis[s] : fromisoformat(e.member) = x
        /\ Durable("mongodb", config) /\ config.version = "solid" =>
              \E i \in 1..Len(mongo[s]) : mongo[s][i] = x

\* C5 in the runs in which no store lost a Failure event of the service
C5_WhenNoWriteLost ==
    NoLostWrite(service) => C5_ThresholdCrossing

\* C6: an alert is dispatched at an evaluation only if at least alert_threshold
\* failed restarts of the service lie inside the alert window that ends at the
\* instant of the evaluation; older failures are not counted.
C6_AlertOnlyOnThreshold ==
    Dispatching =>
        Cardinality(InWindow(service, path.eval_time)) >= alert_threshold

\* C6 witness: no alert although the service has failed alert_threshold times
\* in all, because not all of them lie inside the window
C6_Witness ==
    /\ pc = "done" /\ Evaluated /\ ~Dispatching
    /\ Cardinality(occurred[service]) >= alert_threshold
    /\ Cardinality(InWindow(service, path.eval_time)) < alert_threshold

\* C7: a path in which the service is running, or is down and restarted, leaves
\* every failure window unchanged and attempts no notification.
C7_SuccessPathsKeepWindow ==
    /\ [][ (pc \in {"check", "restart"}) =>
             (service_failures' = service_failures /\ obs'.attempts = << >>) ]_vars
    /\ [] ( (pc = "done" /\ (path.running = "yes" \/ path.restart_success = "yes"))
              => (~Dispatching /\ obs.attempts = << >> /\ path.now = -1) )

\* C7 witness: a successful restart completed with an earlier failure still in
\* the window of the service
C7_Witness ==
    /\ pc = "done" /\ path.restart_success = "yes"
    /\ service_failures[service] # << >>

\* C8: whatever subset of the active stores fails on save (returns false or
\* raises), save is called exactly once on every active store and no exception
\* leaves save_event; the scan goes on.
C8_FanOutIsolation ==
    obs.last.op = "save" =>
        /\ Len(obs.last.calls) = Len(databases)
        /\ \A i \in 1..Len(databases) : obs.last.calls[i] = 1
        /\ ~obs.last.escaped
        /\ ~Ended

\* C8 witness: the first of two stores raised on save and the second was called
C8_Witness ==
    /\ obs.last.op = "save" /\ Len(databases) = 2
    /\ obs.last.outcomes[1] = "raise" /\ obs.last.outcomes[2] = "ok"
    /\ obs.last.calls[2] = 1

\* what databases[i] answered to the query of the current evaluation
Answer(i) ==
    DbGetFailures(databases[i], service, path.eval_time - alert_window,
                  obs.last.outcomes[i])

HasData(i) == obs.last.outcomes[i] # "raise" /\ Answer(i) # << >>

Queried == config.version = "solid" /\ obs.last.op = "query"

\* C9: the decision is taken on the list of the first active store, in
\* registration order, whose get_failures result is non-empty, and that list is
\* the one dispatched, whatever the in-memory window holds.
C9_FallbackOrdering ==
    (Queried /\ Evaluated) =>
        /\ \A i \in 1..Len(databases) :
              (HasData(i) /\ \A j \in 1..(i - 1) : ~HasData(j)) =>
                  (path.source = i /\ path.recent_failures = Answer(i))
        /\ obs.alerts > 0 => obs.alert_failures = path.recent_failures

\* C9 witness: store A answered nothing, store B's list was dispatched, and it
\* is not the in-memory window
C9_Witness ==
    /\ Queried /\ Evaluated /\ Len(databases) = 2
    /\ ~HasData(1) /\ HasData(2)
    /\ obs.alerts = 1 /\ obs.alert_failures = Answer(2)
    /\ obs.alert_failures # service_failures[service]

\* the in-memory window of the service pruned at the current evaluation
PrunedMemory ==
    SeqOfSet({x \in occurred[service] :
                 x >= 1 /\ x >= path.eval_time - alert_window})

\* C10: when every active store answers nothing or raises on get_failures (or
\* none is active), the decision is taken on the pruned in-memory window; the
\* read error is not propagated and every later store is still consulted.
C10_MemoryFallback ==
    Queried =>
        /\ ~obs.last.escaped /\ ~Ended /\ Evaluated
        /\ (\A i \in 1..Len(databases) : ~HasData(i)) =>
              /\ path.source = 0
              /\ path.recent_failures = PrunedMemory
              /\ service_failures[service] = PrunedMemory
              /\ \A i \in 1..Len(databases) : obs.last.calls[i] = 1

\* C10 witness: the first store raised, the second was consulted and answered
\* nothing, and the decision was taken on the in-memory window
C10_Witness ==
    /\ Queried /\ Len(databases) = 2
    /\ obs.last.outcomes[1] = "raise" /\ obs.last.calls[2] = 1
    /\ path.source = 0 /\ path.recent_failures # << >>

\* failed restarts of service s that this process recorded (the process started
\* at instant 1) and that lie inside the alert window ending at instant t
RecordedInWindow(s, t) == {x \in InWindow(s, t) : x >= 1}

\* C11: whatever the stores do on save and on query, once alert_threshold
\* failed restarts of a service recorded since process start lie inside one
\* alert window, the failure that reaches the threshold dispatches an alert.
C11_OutagesNeverLoseAlerting ==
    (Evaluated /\ ~Ended) =>
        (Cardinality(RecordedInWindow(service, path.eval_time)) >= alert_threshold
            => Dispatching)

\* C11 in the runs in which no store lost a Failure event of the service
C11_WhenNoWriteLost ==
    NoLostWrite(service) => C11_OutagesNeverLoseAlerting

\* C12: with an alert window of zero no alert is ever dispatched, for any
\* service and any alert_threshold >= 1.
C12_ZeroWindowNeverAlerts ==
    alert_window = 0 => ~Dispatching

\* C12 for a threshold of at least two
C12_ZeroWindowThresholdTwo ==
    (alert_window = 0 /\ alert_threshold >= 2) => ~Dispatching

\* C12 when the clock has moved between `now` of record_failure and the clock
\* read of get_recent_failures (solid version)
C12_ZeroWindowLaterRead ==
    (alert_window = 0 /\ path.eval_time > path.now) => ~Dispatching

C14_EachChannelOnce ==
    obs.alerts > 0 =>
        /\ obs.alerts = 1
        /\ EachEnabledChannelOnce
        /\ \A i \in 1..Len(obs.attempts) :
              obs.attempts[i].io <=> notification_configs[i].configured
        /\ ~Ended

\* C14 witness: the first enabled channel raised and the next one was sent
C14_Witness ==
    /\ obs.alerts = 1 /\ Len(obs.attempts) = 2
    /\ obs.attempts[1].result = "raised"
    /\ obs.attempts[2].io /\ obs.attempts[2].result = "sent"

\* what an operator sees of a notification attempt: the value returned and the
\* log
Outcome(a) == <<a.returned, Emitted(a.log)>>

\* the attempt on channel n if it had its credentials and the transport failed
TransportFailure(n) ==
    IF config.version = "solid"
    THEN send_notification([n EXCEPT !.configured = TRUE], "failed")
    ELSE send_kind_alert([n EXCEPT !.configured = TRUE], "failed")

ChannelOf(a) == CHOOSE n \in Range(config.notifications) : n.type = a.type

\* C15: an attempt on a channel whose password / webhook URL is missing does no
\* network I/O, reports no success, and what it returns and logs differs from
\* what a transport failure of the same channel with credentials returns and logs.
C15_GuardNoIO ==
    \A i \in 1..Len(obs.attempts) :
        LET a == obs.attempts[i]
        IN  ~ChannelOf(a).configured =>
                /\ ~a.io
                /\ a.returned \in {"False", "None"}
                /\ Outcome(a) # Outcome(TransportFailure(ChannelOf(a)))

\* C15 witness: in one dispatch a channel with credentials failed in transport
\* and a channel without credentials was stopped by its guard
C15_Witness ==
    \E i, j \in 1..Len(obs.attempts) :
        /\ obs.attempts[i].result = "failed" /\ obs.attempts[i].io
        /\ ~ChannelOf(obs.attempts[j]).configured
        /\ obs.attempts[j].returned = obs.attempts[i].returned

\* the failure timestamps of service s a query with the earliest `since`
\* returns from a store of the given type, r and m being the content of Redis
\* and of MongoDB
Held(type, r, m, s) ==
    CASE type = "influxdb" -> Range(InfluxGetFailures(s, 0))
      [] type = "redis"    -> Range(RedisGetFailures(r, s, 0))
      [] type = "mongodb"  -> Range(MongoGetFailures(m, s, 0))

\* a step that is a run of cleanup_old_data
CleanupStep == pc = "idle" /\ pc' = "cleaned"

\* C16: after a cleanup tick with cutoff c = now - retention, every store whose
\* cleanup went through returns no event older than c and still returns every
\* event with timestamp >= c, one exactly at c included.
C16_RetentionCleanup ==
    [][ CleanupStep =>
          LET c == clock - config.retention_hours
          IN  \A i \in 1..Len(databases), s \in ServiceNames :
                obs'.last.outcomes[i] = "ok" =>
                    Held(databases[i], redis', mongo', s) =
                        {t \in Held(databases[i], redis, mongo, s) : t >= c} ]_vars

\* C16 without the event exactly at the cutoff: events older than c are gone
\* and events newer than c remain
C16_OlderGoneNewerKept ==
    [][ CleanupStep =>
          LET c == clock - config.retention_hours
          IN  \A i \in 1..Len(databases), s \in ServiceNames :
                obs'.last.outcomes[i] = "ok" =>
                    LET before == Held(databases[i], redis, mongo, s)
                        after == Held(databases[i], redis', mongo', s)
                    IN  /\ after \subseteq before
                        /\ \A t \in before : t < c => t \notin after
                        /\ \A t \in before : t > c => t \in after ]_vars

\* a cleanup removed an event older than the cutoff and kept a newer one
C16_Reached ==
    /\ pc = "cleaned" /\ Len(databases) > 0
    /\ obs.last.outcomes[Len(databases)] = "ok"
    /\ \E s \in ServiceNames :
         /\ \E t \in occurred[s] : t < clock - config.retention_hours
         /\ Held(databases[Len(databases)], redis, mongo, s) # {}
         /\ \A t \in Held(databases[Len(databases)], redis, mongo, s) :
               t > clock - config.retention_hours

\* the positions inside the path of one service
PathStates ==
    {"check", "restart", "record_failure", "get_recent_failures", "send_alerts",
     "send_alert", "save_failure"}

\* C17: a scan starts at the first configured service and, whatever the outcome
\* of a service's path (check false, restart failed, store write failed, alert
\* dispatch failed), that path runs on to its end and the scan moves to the
\* next service in configuration order; after the last one the scan ends.
C17_EveryServiceInOrder ==
    /\ [][ (pc = "done") =>
             IF idx < Len(config.services)
             THEN pc' = "check" /\ idx' = idx + 1 /\ job' = job
             ELSE pc' = "idle" ]_vars
    /\ [][ (pc \in PathStates) =>
             (pc' \in PathStates \cup {"done"} /\ idx' = idx /\ job' = job) ]_vars
    /\ [][ (pc = "idle" /\ pc' = "check") => idx' = 1 ]_vars
    /\ [] (pc \in PathStates \cup {"done"} =>
             (idx \in 1..Len(config.services) /\ job \in {"initial", "scan"}))
    /\ [] (pc \in PathStates \cup {"done"} => ENABLED Next)

\* C17 witness: in one scan the first service failed to restart and the path of
\* the second service has run to its end
C17_Witness ==
    /\ pc = "done" /\ idx = 2 /\ path.running # "none"
    /\ config.version = "simple"
    /\ clock \in occurred[config.services[1]]

\* C18: a scan starts only when no scan and no cleanup is running, a cleanup
\* starts only when no scan is running, and the in-memory failure windows are
\* changed by the running scan alone: no two activities are in progress at once.
C18_ScansSerialized ==
    /\ [][ (pc' = "check" /\ ~(pc = "done" /\ idx' = idx + 1)) =>
             (pc = "idle" /\ job = "none" /\ job' = "scan") ]_vars
    /\ [][ (pc' = "cleaned") => (pc = "idle" /\ job = "none" /\ job' = "cleanup") ]_vars
    /\ [][ (service_failures' # service_failures) =>
             (job \in {"initial", "scan"} /\ job' = job) ]_vars
    /\ [] ( /\ pc = "idle" => job = "none"
            /\ pc = "cleaned" => job = "cleanup"
            /\ pc \in PathStates \cup {"done"} => job \in {"initial", "scan"} )

\* C18 witness: a scheduled scan of the solid version is about to read the
\* failure window that an earlier scan wrote
C18_Witness ==
    /\ job = "scan" /\ pc = "get_recent_failures"
    /\ config.version = "solid"
    /\ Len(service_failures[service]) >= 2

\* the step in which the process ends on an external interrupt
InterruptExit == ~Ended /\ pc' \in {"exit0", "interrupted"}

\* C19: when an interrupt ends the process, the path of the service being
\* processed has run to its end: the process never exits from inside a path,
\* and a failed restart has been followed by its Failure record, the window
\* append and the alert decision.
C19_InterruptCompletesPath ==
    [][ InterruptExit =>
          /\ pc \notin PathStates
          /\ path.restart_success = "no" =>
                (path.now # -1 /\ Evaluated /\ path.now \in occurred[service]) ]_vars

\* C19 for the interrupts that arrive between two paths or between two scans
C19_InterruptBetweenPaths ==
    [][ (InterruptExit /\ pc \notin PathStates) =>
          (path.restart_success = "no" =>
                (path.now # -1 /\ Evaluated /\ path.now \in occurred[service])) ]_vars

\* an interrupt ended a scheduled scan after the failed Restart event was saved
\* and before the failure was recorded
C19_Reached ==
    /\ pc = "exit0" /\ job = "scan"
    /\ path.restart_success = "no" /\ path.now = -1
    /\ obs.events = << Event("restart", FALSE) >>

\* C20: the process ends in two ways only: an external interrupt gives exit
\* status zero, at any point after startup, the initial scan included; an
\* exception that leaves the loop body gives a non-zero exit status.
C20_ExitStatus ==
    /\ pc \in {"exit0", "interrupted"} => ExitStatus(pc) = 0
    /\ pc \in {"exit1", "uncaught"} => ExitStatus(pc) # 0

\* C20 for the interrupts that arrive after the initial scan
C20_ExitStatusInLoop ==
    (pc \in {"exit0", "interrupted"} /\ job # "initial") => ExitStatus(pc) = 0

\* an interrupt ended the process during the initial scan
C20_Reached == pc = "interrupted" /\ job = "initial"

\* the check of the service at position idx has been made in a running scan
Checked(i) == idx = i /\ path.running # "none" /\ job \in {"initial", "scan"}

\* C21: the service list never changes, the scan job stays due after any
\* history of errors, and every scan that starts checks every configured
\* service.
C21_EveryServiceEveryCycle ==
    /\ [][config' = config]_vars
    /\ [] ((pc = "idle" /\ clock < MaxTime) => ENABLED run_pending_scan)
    /\ \A i \in 1..2 :
         [] ((pc = "check" /\ idx = 1 /\ Len(config.services) >= i) => <>Checked(i))

\* C21 witness: in a scheduled scan the second service is checked although it
\* failed to restart in two earlier scans and an alert was dispatched for it
C21_Witness ==
    /\ job = "scan" /\ Checked(2) /\ pc \in {"restart", "done"}
    /\ Cardinality(occurred[service]) >= 2
    /\ alert_threshold = 1

\* C22: a scan that has started always has a next step, also when an external
\* call never responds: no call suspends the scan for ever.
C22_ScanCompletes ==
    job \in {"initial", "scan"} => ENABLED NextHang

\* C22 when every external call returns
C22_WhenCallsReturn ==
    (job \in {"initial", "scan"} /\ pc # "blocked") => ENABLED NextHang

\* a scheduled scan is blocked in the restart of its first service
C22_Reached ==
    /\ pc = "blocked" /\ job = "scan" /\ idx = 1
    /\ path.running = "no" /\ path.restart_success = "none"

\* C23: an error inside the service check makes the check return false, so the
\* restart is attempted; an error inside the restart makes it return false, so
\* the failure is recorded and the alert decision is taken; the error ends
\* neither the scan nor the process.
C23_ProbeErrorsAbsorbed ==
    /\ [][ (pc = "check" /\ path'.probe = "error") =>
             (path'.running = "no" /\ pc' = "restart") ]_vars
    /\ [][ (pc = "restart" /\ path'.probe = "error") =>
             (path'.restart_success = "no" /\ pc' = "record_failure") ]_vars
    /\ [] ((pc = "done" /\ path.probe = "error") =>
             /\ path.running = "no" /\ path.restart_success = "no"
             /\ Evaluated /\ path.now \in occurred[service])
    /\ [] (path.probe = "error" => ~Ended)

\* C23 witness: the restart raised an error, the failure was recorded and the
\* alert decision was taken
C23_Witness ==
    /\ pc = "done" /\ path.probe = "error" /\ path.restart_success = "no"
    /\ Evaluated /\ path.now \in occurred[service]

\* C24: for the size N of every evaluated failure list and all thresholds
\* T' <= T, if the decision for (N, T) is to alert, so is the decision for
\* (N, T'); the decision taken is the one for the configured threshold.
C24_ThresholdMonotone ==
    (Evaluated /\ ~Ended) =>
        LET N == Len(path.recent_failures)
        IN  /\ \A T \in 1..(MaxThreshold + 1), Tp \in 1..(MaxThreshold + 1) :
                  (Tp <= T /\ should_alert(N, T)) => should_alert(N, Tp)
            /\ Dispatching <=> should_alert(N, alert_threshold)

\* C24 witness: an alert decided on a list longer than one entry with a
\* threshold above one
C24_Witness ==
    /\ Evaluated /\ Dispatching
    /\ Len(path.recent_failures) >= 2 /\ alert_threshold >= 2

\* a notification channel has been attempted in the current path
Attempted == obs.alerts > 0 \/ obs.attempts # << >>

\* C25: on the restart-failed path no channel is attempted before the failed
\* Restart event and then the Failure event have been handed to the stores.
C25_FailureSavedBeforeNotify ==
    (Attempted /\ Len(databases) > 0) =>
        obs.events = << Event("restart", FALSE), Event("failure", FALSE) >>

\* C25 for the Failure event alone
C25_FailureEventBeforeNotify ==
    (Attempted /\ Len(databases) > 0) => FailureEvents(obs) = 1

\* C25 in the solid version
C25_SolidOrder ==
    (Attempted /\ config.version = "solid") =>
        obs.events = << Event("restart", FALSE), Event("failure", FALSE) >>

\* the simple version has attempted its channels and the Failure event of the
\* failure has not been handed to InfluxDB
C25_Reached ==
    /\ config.version = "simple" /\ influxdb_enabled
    /\ pc = "save_failure" /\ obs.alerts = 1 /\ obs.events = << >>

\* C26: after every evaluation the in-memory failure window of the service
\* holds no timestamp older than the alert window, whichever source answered.
C26_MemoryPrunedAtEvaluation ==
    Evaluated =>
        \A i \in 1..Len(service_failures[service]) :
            path.eval_time - service_failures[service][i] <= alert_window

\* C26 for the evaluations answered by the in-memory window
C26_WhenMemoryAnswers ==
    (Evaluated /\ path.source = 0) =>
        \A i \in 1..Len(service_failures[service]) :
            path.eval_time - service_failures[service][i] <= alert_window

\* a store answered the evaluation and the in-memory window still holds an
\* entry older than the alert window
C26_Reached ==
    /\ Evaluated /\ path.source > 0
    /\ \E i \in 1..Len(service_failures[service]) :
          path.eval_time - service_failures[service][i] > alert_window

Chronological(seq) == \A i \in 1..(Len(seq) - 1) : seq[i] <= seq[i + 1]

\* C27: the failure list handed to the channels is the list the alert decision
\* was taken on, whole, and its timestamps are in chronological order, whether
\* it came from a store or from the in-memory window.
C27_FullListInOrder ==
    obs.alerts > 0 =>
        /\ obs.alert_failures = path.recent_failures
        /\ Chronological(obs.alert_failures)

\* C27 without the order: the list handed over is the list decided on
C27_FullList ==
    obs.alerts > 0 => obs.alert_failures = path.recent_failures

\* C27 for the lists that did not come from MongoDB
C27_InOrderUnlessMongo ==
    (obs.alerts > 0 /\ (path.source = 0 \/ databases[path.source] # "mongodb")) =>
        Chronological(obs.alert_failures)

\* MongoDB answered the evaluation with a list that is not in chronological
\* order and the channels were given it
C27_Reached ==
    /\ obs.alerts = 1 /\ path.source > 0 /\ databases[path.source] = "mongodb"
    /\ ~Chronological(obs.alert_failures)

\* a step that is a run of cleanup_old_data, however it ends
CleanupTick == pc = "idle" /\ job' = "cleanup"

\* C28: on every cleanup tick cleanup_old_records is called exactly once on
\* every active store, with one cutoff (now - retention) for all of them; a
\* store whose cleanup raises neither keeps the remaining stores from being
\* cleaned nor lets the exception reach the scheduler loop.
C28_CleanupEveryStore ==
    [][ CleanupTick =>
          LET c == clock - config.retention_hours
          IN  /\ pc' = "cleaned"
              /\ obs'.last.op = "cleanup" /\ ~obs'.last.escaped
              /\ \A i \in 1..Len(databases) : obs'.last.calls[i] = 1
              /\ \A i \in 1..Len(databases), s \in ServiceNames :
                   obs'.last.outcomes[i] = "ok" =>
                       LET before == Held(databases[i], redis, mongo, s)
                           after == Held(databases[i], redis', mongo', s)
                       IN  /\ \A t \in before : t < c => t \notin after
                           /\ \A t \in before : t > c => t \in after ]_vars

\* the cleanup of the first store raised, the second store was called all the
\* same and dropped what was older than the cutoff
C28_Witness ==
    /\ pc = "cleaned" /\ Len(databases) = 2
    /\ obs.last.outcomes = <<"raise", "ok">> /\ obs.last.calls = <<1, 1>>
    /\ ~obs.last.escaped
    /\ \E s \in ServiceNames :
         /\ \E t \in occurred[s] : t < clock - config.retention_hours
         /\ Held(databases[2], redis, mongo, s) # {}
         /\ \A t \in Held(databases[2], redis, mongo, s) :
               t > clock - config.retention_hours

\* C29: for every alert decision get_failures is invoked against all active
\* stores, not only against those up to the first one that returns a non-empty
\* result.
C29_AllStoresQueried ==
    (config.version = "solid" /\ obs.last.op = "query") =>
        \A i \in 1..Len(databases) : obs.last.calls[i] = 1

\* what the evaluation does: it queries the stores in order up to the first
\* one that answers a non-empty list, and all of them when none does
C29_QueriedUpToFirstAnswer ==
    (config.version = "solid" /\ obs.last.op = "query") =>
        \A i \in 1..Len(databases) :
            obs.last.calls[i] = IF path.source = 0 \/ i <= path.source THEN 1 ELSE 0

\* the first of two stores answered the evaluation and the second was not
\* queried
C29_Reached ==
    /\ config.version = "solid" /\ obs.last.op = "query"
    /\ Len(databases) = 2 /\ path.source = 1
    /\ obs.last.calls = <<1, 0>>

\* a step that takes the alert decision of a failed restart of a service an
\* alert has already been dispatched for
FurtherEvaluation == service \in alerted /\ ~Evaluated /\ Evaluated'

\* a step that dispatches the alert of such a failed restart
FurtherDispatch == service \in alerted /\ obs'.alerts = obs.alerts + 1

\* C30: alerts are not suppressed once the threshold has been crossed: every
\* further failed restart of the service whose evaluated list has at least
\* alert_threshold entries dispatches again, to every enabled channel, the
\* evaluated list, and that list holds the new failure; nothing cools down.
C30_AlertsAgainGrowingList ==
    /\ [][ FurtherEvaluation =>
             (Len(path'.recent_failures) >= alert_threshold
                 => pc' \in {"send_alerts", "send_alert"}) ]_vars
    /\ [][ (service \in alerted /\ pc \in {"send_alerts", "send_alert"}) =>
             /\ obs'.alerts = 1 /\ EachEnabledChannelOnce'
             /\ obs'.alert_failures = path.recent_failures
             /\ path.now \in Range(obs'.alert_failures) ]_vars

\* C30 without the content of the list: the alert is dispatched again, to every
\* enabled channel, whatever was dispatched before
C30_AlertsAgain ==
    /\ [][ FurtherEvaluation =>
             (Len(path'.recent_failures) >= alert_threshold
                 <=> pc' \in {"send_alerts", "send_alert"}) ]_vars
    /\ [][ (service \in alerted /\ pc \in {"send_alerts", "send_alert"}) =>
             /\ obs'.alerts = 1 /\ EachEnabledChannelOnce'
             /\ obs'.alert_failures = path.recent_failures ]_vars

\* C30 in the runs in which no store lost a Failure event of the service
C30_WhenNoWriteLost ==
    [][ (FurtherDispatch /\ NoLostWrite(service)) =>
            path.now \in Range(obs'.alert_failures) ]_vars

\* the second alert of a service has been dispatched, one scan cycle after the
\* first, on a list that does not hold the new failure
C30_Reached ==
    /\ obs.alerts = 1 /\ pc = "done"
    /\ \E x \in occurred[service] : x >= 1 /\ x < path.now
    /\ path.now \notin Range(obs.alert_failures)

\* C31: recording or evaluating a failure of one service leaves the in-memory
\* failure window of every other service unchanged, and the alert of a service
\* is decided on failures of that service only: failures of different services
\* are never summed toward one threshold.
C31_ServicesIndependent ==
    /\ [][ \A s \in ServiceNames \ {service} :
              service_failures'[s] = service_failures[s] ]_vars
    /\ [] (Evaluated =>
              /\ Range(path.recent_failures) \subseteq occurred[service]
              /\ Len(path.recent_failures) <= Cardinality(occurred[service]))
    /\ [] (Dispatching =>
              Cardinality(InWindow(service, path.eval_time)) >= alert_threshold)

\* the second service failed once, a store answered its evaluation, no alert
\* was dispatched although the failures of the two services inside the window
\* reach the threshold together, and the window of the first service is kept
C31_Witness ==
    /\ config.version = "solid" /\ idx = 2 /\ pc = "done"
    /\ Evaluated /\ path.source = 1 /\ obs.alerts = 0
    /\ service_failures["svc1"] # << >>
    /\ Cardinality(InWindow("svc2", path.eval_time)) < alert_threshold
    /\ Cardinality(InWindow("svc1", path.eval_time)) +
         Cardinality(InWindow("svc2", path.eval_time)) >= alert_threshold

EnabledStores ==
    Cardinality({i \in DOMAIN config.databases : config.databases[i].enabled})

\* C32: a store or a notification channel whose configuration has enabled =
\* false is never called: every fan-out (save, failure query, cleanup) goes to
\* the enabled stores only, a store that is not enabled is never written, and
\* every notification attempt is on an enabled channel.
C32_DisabledNeverCalled ==
    /\ obs.last.op # "none" => Len(obs.last.calls) = EnabledStores
    /\ (config.version = "simple" /\ ~influxdb_enabled) =>
          (obs.events = << >> /\ obs.last.op = "none")
    /\ ~Durable("redis", config) => \A s \in ServiceNames : redis[s] = {}
    /\ ~Durable("mongodb", config) => \A s \in ServiceNames : mongo[s] = << >>
    /\ \A i \in 1..Len(obs.attempts) :
          \E j \in 1..Len(config.notifications) :
              /\ config.notifications[j].type = obs.attempts[i].type
              /\ config.notifications[j].enabled

\* with a store and a channel that are not enabled in the configuration, a
\* failure was saved by the enabled stores and an alert went to the enabled
\* channels
C32_Witness ==
    /\ pc = "done" /\ obs.alerts = 1 /\ Len(obs.attempts) >= 1
    /\ EnabledStores >= 1 /\ EnabledStores < Len(config.databases)
    /\ Len(notification_configs) < Len(config.notifications)
    /\ redis[service] # {} /\ mongo[service] = << >>

\* the step of the solid version, with no event store, that evaluates the
\* window of the failure just appended
SolidMemoryEvaluation ==
    config.version = "solid" /\ databases = << >> /\ pc = "get_recent_failures"

\* what record_failure of the simple version makes of the same window, the
\* failure just appended at path.now included
SimpleWindow ==
    SelectSeq(service_failures[service],
              LAMBDA t : simple_keep(t, simple_cutoff_time(path.now)))

\* C33: with no event store enabled the two versions are equivalent on
\* alerting: from the same in-memory windows and the same failed restart, the
\* solid version leaves the window the simple version leaves, decides on the
\* same list and dispatches exactly when the simple version does.
C33_VersionsEquivalent ==
    [][ SolidMemoryEvaluation =>
          /\ service_failures'[service] = SimpleWindow
          /\ path'.recent_failures = SimpleWindow
          /\ (pc' = "send_alerts") <=> simple_should_alert(SimpleWindow) ]_vars

\* C33 when the second clock read of the solid version returns the instant of
\* the first
C33_WhenClockReadsAgree ==
    [][ (SolidMemoryEvaluation /\ clock' = path.now) =>
          /\ service_failures'[service] = SimpleWindow
          /\ path'.recent_failures = SimpleWindow
          /\ (pc' = "send_alerts") <=> simple_should_alert(SimpleWindow) ]_vars

\* C33 for the entries strictly inside the window: the two versions differ only
\* on entries the later clock read of the solid version puts outside
C33_DifferOnlyAtBoundary ==
    [][ SolidMemoryEvaluation =>
          /\ Range(service_failures'[service]) \subseteq Range(SimpleWindow)
          /\ \A t \in Range(SimpleWindow) :
                clock' - t <= alert_window => t \in Range(service_failures'[service]) ]_vars

\* with no event store the solid version has evaluated a failed restart on an
\* empty list and dispatched nothing, where the simple version keeps the new
\* failure and reaches the threshold
C33_Reached ==
    /\ config.version = "solid" /\ databases = << >> /\ pc = "done"
    /\ Evaluated /\ path.recent_failures = << >> /\ obs.alerts = 0
    /\ alert_threshold = 1 /\ path.eval_time > path.now
    /\ simple_keep(path.now, simple_cutoff_time(path.now))

====
